---------------------------- MODULE Spec2Model ----------------------------
(***************************************************************************)
(* Model of the double-pulse sequencer firmware (Core/Src/main.c):         *)
(* the UART receive callback, the command loop of main(), apply_set,       *)
(* seq_start / seq_request_soft_stop / seq_hard_stop, send_readback and    *)
(* the TIM1 (Fast) / TIM2 (Slow) period-elapsed callback, together with    *)
(* the timer registers (CEN, UIE, UIF, CNT, ARR) the code programs and the *)
(* four bridge GPIO outputs.                                               *)
(*                                                                         *)
(* Every function of the code is an operator from the program state (a    *)
(* record m) to the program state after it, built from one operator per    *)
(* statement; an action applies an operator to the current state M.        *)
(***************************************************************************)
EXTENDS Integers, Sequences, FiniteSets, TLC

VARIABLES
    g_state,            \* run_state_t g_state
    g_t1_cnt,           \* phase counter inside a cycle
    g_exit,             \* exit_mode_t g_exit
    pulse_count,        \* uint8_t pulse_count (cycle counter)
    soll_pulse_count,   \* uint8_t soll_pulse_count (target given with START)
    Tcfg,               \* Tcfg[timer] = [value, flags], timer in 1..2
    htim,               \* htim[timer] = [cen, uie, uif, cnt, arr]
    gpio,               \* the four bridge outputs
    tx,                 \* last frame handed to HAL_UART_Transmit
    rx_armed,           \* a HAL_UARTEx_ReceiveToIdle_IT reception is armed
    loc,                \* main(): the locals cmd, base, timer, value, flags
    command_rcv,        \* volatile flag set by the receive callback
    rx_buf,             \* saved frame (5 bytes)
    pc,                 \* main(): "loop" in the while loop, "returned" after return
    ev                  \* history: the handler that ran last, its branch and
                        \* the sequencer state it found

vars == << g_state, g_t1_cnt, g_exit, pulse_count, soll_pulse_count, Tcfg,
           htim, gpio, tx, rx_armed, loc, command_rcv, rx_buf, pc, ev >>

\* the program state the handlers read and write, as one record
M == [g_state |-> g_state, g_t1_cnt |-> g_t1_cnt, g_exit |-> g_exit,
      pulse_count |-> pulse_count, soll_pulse_count |-> soll_pulse_count,
      Tcfg |-> Tcfg, htim |-> htim, gpio |-> gpio, tx |-> tx,
      rx_armed |-> rx_armed, loc |-> loc]

\* the program state is m
Holds(m) ==
    /\ g_state = m.g_state
    /\ g_t1_cnt = m.g_t1_cnt
    /\ g_exit = m.g_exit
    /\ pulse_count = m.pulse_count
    /\ soll_pulse_count = m.soll_pulse_count
    /\ Tcfg = m.Tcfg
    /\ htim = m.htim
    /\ gpio = m.gpio
    /\ tx = m.tx
    /\ rx_armed = m.rx_armed
    /\ loc = m.loc

\* the program state after the step is m
Commit(m) ==
    /\ g_state' = m.g_state
    /\ g_t1_cnt' = m.g_t1_cnt
    /\ g_exit' = m.g_exit
    /\ pulse_count' = m.pulse_count
    /\ soll_pulse_count' = m.soll_pulse_count
    /\ Tcfg' = m.Tcfg
    /\ htim' = m.htim
    /\ gpio' = m.gpio
    /\ tx' = m.tx
    /\ rx_armed' = m.rx_armed
    /\ loc' = m.loc

-----------------------------------------------------------------------------
(* Program constants *)

RX_SZ        == 5
PREAMBLE     == 255
CMD_SET      == 16
CMD_START    == 32
CMD_STOP     == 48
CMD_READBACK == 64
T1_US_MIN    == 10
T1_US_MAX    == 1000
T2_MS_MIN    == 1
T2_MS_MAX    == 10000
T2_TICKS_MIN == 5
T2_TICKS_MAX == 100000
TIM1_INIT_PERIOD == 0
\* htim2.Init.Period is 4294967295 (0xFFFFFFFF); TLC's integers end at
\* 2^31 - 1, which stands for it: only its being above every programmed
\* period and every followed count is used.
TIM2_INIT_PERIOD == 2147483647
SOLL_INIT    == 10
UINT8        == 256
UINT16       == 65536

ST_IDLE   == "ST_IDLE"
ST_RUN    == "ST_RUN"
EXIT_NONE == "EXIT_NONE"
EXIT_SOFT == "EXIT_SOFT"
EXIT_HARD == "EXIT_HARD"

\* no frame: the receive buffers after reset (static initialisers)
NoFrame == [i \in 0..(RX_SZ - 1) |-> 0]

\* main()'s locals outside an iteration of the command loop
NoLocals == [cmd |-> 0, base |-> 0, timer |-> 0, value |-> 0, flags |-> 0]

\* the history record of a handler step taken in the current state: the
\* sequencer state it found; a logged receive event (EvRx) adds the
\* pending-command flag it found, the received bytes and their number
Ev(op) == [op |-> op, st |-> g_state, ph |-> g_t1_cnt, ex |-> g_exit,
           cr |-> 0, rx |-> NoFrame, size |-> 0]

EvRx(op, rx, Size, log) ==
    IF log THEN [Ev(op) EXCEPT !.cr = command_rcv, !.rx = rx, !.size = Size]
    ELSE Ev(op)

\* the history record of a state in which the sequencer has not run yet
EvIdle(op) == [op |-> op, st |-> ST_IDLE, ph |-> 0, ex |-> EXIT_NONE,
               cr |-> 0, rx |-> NoFrame, size |-> 0]

(* Bounds of the model *)

MaxCnt    == 1      \* timer counts are followed up to this value
MaxCycles == 2      \* cycles (pulse_count) followed in Spec

-----------------------------------------------------------------------------
(* Bridge outputs: positive_pulse_actions, negative_pulse_actions, all_off *)

positive_pulse_actions ==
    [Drive_Left |-> TRUE, Enable_Left |-> TRUE,
     Drive_Right |-> FALSE, Enable_Right |-> TRUE]

negative_pulse_actions ==
    [Drive_Left |-> FALSE, Enable_Left |-> TRUE,
     Drive_Right |-> TRUE, Enable_Right |-> TRUE]

all_off ==
    [Drive_Left |-> FALSE, Enable_Left |-> FALSE,
     Drive_Right |-> FALSE, Enable_Right |-> FALSE]

-----------------------------------------------------------------------------
(* Timer register operations used by the code, on one timer's registers *)

tim_by_id(timer) == IF timer = 2 THEN 2 ELSE 1

HAL_TIM_Base_Stop(t)     == [t EXCEPT !.cen = FALSE]
HAL_TIM_Base_Stop_IT(t)  == [t EXCEPT !.uie = FALSE, !.cen = FALSE]
HAL_TIM_Base_Start_IT(t) == [t EXCEPT !.uie = TRUE, !.cen = TRUE]
CLEAR_FLAG(t)            == [t EXCEPT !.uif = FALSE]
SET_COUNTER(t, c)        == [t EXCEPT !.cnt = c]
SET_AUTORELOAD(t, a)     == [t EXCEPT !.arr = a]

\* a timer is armed when it counts and its update interrupt is enabled
Armed(t) == t.cen /\ t.uie

-----------------------------------------------------------------------------
(* Byte helpers of the frame decoder and encoder *)

\* Base masking the command byte with 0x30 instead of 0xF0
Base_TwoBits(c) == ((c \div 16) % 4) * 16

Base(c)     == (c \div 16) * 16                \* cmd & 0xF0
\* Timer taking the channel from the whole low nibble
Timer_LowNibble(c) == IF c % 16 # 0 THEN 2 ELSE 1

Timer(c)    == IF c % 2 = 1 THEN 2 ELSE 1      \* (cmd & 0x01) ? 2 : 1
LowByte(v)  == v % 256                         \* (uint8_t)(p & 0xFF)
HighByte(v) == (v \div 256) % 256              \* (uint8_t)(p >> 8)

-----------------------------------------------------------------------------
(* apply_set *)

ClampUs(period_field) ==
    IF period_field < T1_US_MIN THEN T1_US_MIN
    ELSE IF period_field > T1_US_MAX THEN T1_US_MAX
    ELSE period_field

\* ClampMs without the lower limit
ClampMs_NoFloor(period_field) ==
    IF period_field > T2_MS_MAX THEN T2_MS_MAX ELSE period_field

ClampMs(period_field) ==
    IF period_field < T2_MS_MIN THEN T2_MS_MIN
    ELSE IF period_field > T2_MS_MAX THEN T2_MS_MAX
    ELSE period_field

\* TicksFast rounding down instead of to the nearest tick
TicksFast_Truncating(us) ==
    LET ticks == us \div 10
    IN  IF ticks = 0 THEN 1 ELSE ticks

TicksFast(us) ==
    LET ticks == (us + 5) \div 10
    IN  IF ticks = 0 THEN 1 ELSE ticks

TicksSlow(ms) ==
    LET ticks == ms * 10
    IN  IF ticks < T2_TICKS_MIN THEN T2_TICKS_MIN
        ELSE IF ticks > T2_TICKS_MAX THEN T2_TICKS_MAX
        ELSE ticks

\* the local ticks of apply_set when it reaches __HAL_TIM_SET_AUTORELOAD
SetTicks(timer, period_field) ==
    IF timer = 1 THEN TicksFast(ClampUs(period_field))
    ELSE TicksSlow(ClampMs(period_field))

\* the statements of apply_set, in program order
apply_set_stop(m, timer) ==
    [m EXCEPT !.htim[tim_by_id(timer)] = HAL_TIM_Base_Stop(@)]

apply_set_clear(m, timer) ==
    [m EXCEPT !.htim[tim_by_id(timer)] = CLEAR_FLAG(@)]

apply_set_value(m, timer, period_field) ==
    [m EXCEPT !.Tcfg[timer].value =
        IF timer = 1 THEN ClampUs(period_field) % UINT16
        ELSE ClampMs(period_field) % UINT16]

apply_set_arr(m, timer, period_field) ==
    [m EXCEPT !.htim[tim_by_id(timer)] =
        SET_AUTORELOAD(@, SetTicks(timer, period_field) - 1)]

apply_set_cnt(m, timer) ==
    [m EXCEPT !.htim[tim_by_id(timer)] = SET_COUNTER(@, 0)]

apply_set_flags(m, timer, flags) ==
    [m EXCEPT !.Tcfg[timer].flags = flags]

apply_set(m, timer, period_field, flags) ==
    apply_set_flags(
      apply_set_cnt(
        apply_set_arr(
          apply_set_value(
            apply_set_clear(
              apply_set_stop(m, timer), timer),
            timer, period_field),
          timer, period_field),
        timer),
      timer, flags)

-----------------------------------------------------------------------------
(* seq_start, seq_request_soft_stop, seq_hard_stop *)

\* the statements of seq_start after its guard, in program order
\* seq_start_arm leaving a recorded exit request in place
seq_start_arm_KeepExit(m) ==
    LET m2 == [m  EXCEPT !.g_t1_cnt = 0]
        m3 == [m2 EXCEPT !.htim[1] = SET_COUNTER(@, 0)]
        m4 == [m3 EXCEPT !.htim[2] = SET_COUNTER(@, 0)]
        m5 == [m4 EXCEPT !.htim[1] = CLEAR_FLAG(@)]
        m6 == [m5 EXCEPT !.htim[2] = CLEAR_FLAG(@)]
        m7 == [m6 EXCEPT !.htim[1] = HAL_TIM_Base_Start_IT(@)]
        m8 == [m7 EXCEPT !.htim[2] = HAL_TIM_Base_Start_IT(@)]
    IN  m8

seq_start_arm(m) ==
    LET m1 == [m  EXCEPT !.g_exit = EXIT_NONE]
        m2 == [m1 EXCEPT !.g_t1_cnt = 0]
        m3 == [m2 EXCEPT !.htim[1] = SET_COUNTER(@, 0)]
        m4 == [m3 EXCEPT !.htim[2] = SET_COUNTER(@, 0)]
        m5 == [m4 EXCEPT !.htim[1] = CLEAR_FLAG(@)]
        m6 == [m5 EXCEPT !.htim[2] = CLEAR_FLAG(@)]
        m7 == [m6 EXCEPT !.htim[1] = HAL_TIM_Base_Start_IT(@)]
        m8 == [m7 EXCEPT !.htim[2] = HAL_TIM_Base_Start_IT(@)]
    IN  m8

\* seq_start without its guard on g_state
seq_start_Unguarded(m) ==
    [seq_start_arm(m) EXCEPT !.g_state = ST_RUN]

seq_start(m) ==
    IF m.g_state # ST_IDLE THEN m
    ELSE [seq_start_arm(m) EXCEPT !.g_state = ST_RUN]

\* seq_request_soft_stop latching a hard stop instead of the soft stop
seq_request_soft_stop_Hard(m) == [m EXCEPT !.g_exit = EXIT_HARD]

seq_request_soft_stop(m) == [m EXCEPT !.g_exit = EXIT_SOFT]

\* seq_hard_stop without the call of all_off
seq_hard_stop_KeepBridge(m) ==
    LET m1 == [m  EXCEPT !.htim[1] = HAL_TIM_Base_Stop_IT(@)]
        m2 == [m1 EXCEPT !.htim[2] = HAL_TIM_Base_Stop_IT(@)]
        m3 == [m2 EXCEPT !.htim[1] = CLEAR_FLAG(@)]
        m4 == [m3 EXCEPT !.htim[2] = CLEAR_FLAG(@)]
    IN  [m4 EXCEPT !.g_state = ST_IDLE, !.g_t1_cnt = 0, !.g_exit = EXIT_NONE]

seq_hard_stop(m) ==
    LET m1 == [m  EXCEPT !.htim[1] = HAL_TIM_Base_Stop_IT(@)]
        m2 == [m1 EXCEPT !.htim[2] = HAL_TIM_Base_Stop_IT(@)]
        m3 == [m2 EXCEPT !.htim[1] = CLEAR_FLAG(@)]
        m4 == [m3 EXCEPT !.htim[2] = CLEAR_FLAG(@)]
        m5 == [m4 EXCEPT !.gpio = all_off]
    IN  [m5 EXCEPT !.g_state = ST_IDLE, !.g_t1_cnt = 0, !.g_exit = EXIT_NONE]

-----------------------------------------------------------------------------
(* send_readback: the frame handed to HAL_UART_Transmit *)

\* send_readback with the two value bytes in the wrong order
send_readback_Swapped(m, timer) ==
    LET p == m.Tcfg[timer].value
    IN  [m EXCEPT !.tx = << PREAMBLE,
                            CMD_READBACK + (IF timer = 2 THEN 1 ELSE 0),
                            HighByte(p),
                            LowByte(p),
                            m.Tcfg[timer].flags >>]

send_readback(m, timer) ==
    LET p == m.Tcfg[timer].value
    IN  [m EXCEPT !.tx = << PREAMBLE,
                            CMD_READBACK + (IF timer = 2 THEN 1 ELSE 0),
                            LowByte(p),
                            HighByte(p),
                            m.Tcfg[timer].flags >>]

-----------------------------------------------------------------------------
(* HAL_TIM_PeriodElapsedCallback *)

\* TIM1_Callback with the timer left running in case 2
TIM1_Callback_KeepRunning(m) ==
    IF m.g_state # ST_RUN THEN m
    ELSE CASE m.g_t1_cnt = 0 ->
                [m EXCEPT !.gpio = positive_pulse_actions, !.g_t1_cnt = 1]
           [] m.g_t1_cnt = 1 ->
                [m EXCEPT !.gpio = negative_pulse_actions, !.g_t1_cnt = 2]
           [] m.g_t1_cnt = 2 ->
                [m EXCEPT !.gpio = all_off]
           [] OTHER -> m

\* TIM1_Callback without its guard on g_state
TIM1_Callback_NoGuard(m) ==
    CASE m.g_t1_cnt = 0 ->
             [m EXCEPT !.gpio = positive_pulse_actions, !.g_t1_cnt = 1]
      [] m.g_t1_cnt = 1 ->
             [m EXCEPT !.gpio = negative_pulse_actions, !.g_t1_cnt = 2]
      [] m.g_t1_cnt = 2 ->
             [m EXCEPT !.gpio = all_off,
                       !.htim[1] = CLEAR_FLAG(HAL_TIM_Base_Stop_IT(@))]
      [] OTHER -> m

TIM1_Callback(m) ==
    IF m.g_state # ST_RUN THEN m
    ELSE CASE m.g_t1_cnt = 0 ->
                [m EXCEPT !.gpio = positive_pulse_actions, !.g_t1_cnt = 1]
           [] m.g_t1_cnt = 1 ->
                [m EXCEPT !.gpio = negative_pulse_actions, !.g_t1_cnt = 2]
           [] m.g_t1_cnt = 2 ->
                [m EXCEPT !.gpio = all_off,
                          !.htim[1] = CLEAR_FLAG(HAL_TIM_Base_Stop_IT(@))]
           [] OTHER -> m

\* TIM2_Callback with the cycle counted before the soft stop is looked at
TIM2_Callback_CountFirst(m) ==
    IF m.g_state # ST_RUN THEN m
    ELSE IF m.g_exit = EXIT_SOFT
    THEN [m EXCEPT !.htim[2] = CLEAR_FLAG(HAL_TIM_Base_Stop_IT(@)),
                   !.pulse_count = (@ + 1) % UINT8,
                   !.g_state = ST_IDLE,
                   !.g_t1_cnt = 0,
                   !.g_exit = EXIT_NONE]
    ELSE [m EXCEPT !.g_t1_cnt = 0,
                   !.pulse_count = (@ + 1) % UINT8,
                   !.htim[1] = HAL_TIM_Base_Start_IT(
                                   CLEAR_FLAG(SET_COUNTER(@, 0)))]

\* TIM2_Callback with the automatic stop at the pulse-count target that the
\* code keeps commented out
TIM2_Callback_AutoStop(m) ==
    IF m.g_state # ST_RUN THEN m
    ELSE IF \/ m.g_exit = EXIT_SOFT
            \/ /\ m.soll_pulse_count # 0
               /\ m.pulse_count >= m.soll_pulse_count - 1
    THEN [m EXCEPT !.htim[2] = CLEAR_FLAG(HAL_TIM_Base_Stop_IT(@)),
                   !.g_state = ST_IDLE,
                   !.g_t1_cnt = 0,
                   !.g_exit = EXIT_NONE]
    ELSE [m EXCEPT !.g_t1_cnt = 0,
                   !.pulse_count = (@ + 1) % UINT8,
                   !.htim[1] = HAL_TIM_Base_Start_IT(
                                   CLEAR_FLAG(SET_COUNTER(@, 0)))]

\* TIM2_Callback whose soft-stop branch leaves the phase as it is
TIM2_Callback_KeepPhase(m) ==
    IF m.g_state # ST_RUN THEN m
    ELSE IF m.g_exit = EXIT_SOFT
    THEN [m EXCEPT !.htim[2] = CLEAR_FLAG(HAL_TIM_Base_Stop_IT(@)),
                   !.g_state = ST_IDLE,
                   !.g_exit = EXIT_NONE]
    ELSE [m EXCEPT !.g_t1_cnt = 0,
                   !.pulse_count = (@ + 1) % UINT8,
                   !.htim[1] = HAL_TIM_Base_Start_IT(
                                   CLEAR_FLAG(SET_COUNTER(@, 0)))]

TIM2_Callback(m) ==
    IF m.g_state # ST_RUN THEN m
    ELSE IF m.g_exit = EXIT_SOFT
    THEN [m EXCEPT !.htim[2] = CLEAR_FLAG(HAL_TIM_Base_Stop_IT(@)),
                   !.g_state = ST_IDLE,
                   !.g_t1_cnt = 0,
                   !.g_exit = EXIT_NONE]
    ELSE [m EXCEPT !.g_t1_cnt = 0,
                   !.pulse_count = (@ + 1) % UINT8,
                   !.htim[1] = HAL_TIM_Base_Start_IT(
                                   CLEAR_FLAG(SET_COUNTER(@, 0)))]

\* which branch of the callback a state takes (for ev)
Tim1Branch(m) ==
    IF m.g_state # ST_RUN THEN "TIM1_ignored"
    ELSE CASE m.g_t1_cnt = 0 -> "TIM1_pulse1"
           [] m.g_t1_cnt = 1 -> "TIM1_pulse2"
           [] m.g_t1_cnt = 2 -> "TIM1_off"
           [] OTHER -> "TIM1_default"

Tim2Branch(m) ==
    IF m.g_state # ST_RUN THEN "TIM2_ignored"
    ELSE IF m.g_exit = EXIT_SOFT THEN "TIM2_stop" ELSE "TIM2_continue"

-----------------------------------------------------------------------------
(* main(): one iteration of the command loop that finds command_rcv == 1 *)

\* the switch on base; "returned" tells that main() returned (hard stop)
Execute(m, c, v, f) ==
    CASE Base(c) = CMD_SET      -> apply_set(m, Timer(c), v, f)
      [] Base(c) = CMD_START    ->
             seq_start([m EXCEPT !.soll_pulse_count = v % UINT8])
      [] Base(c) = CMD_STOP     ->
             IF m.g_exit = EXIT_HARD THEN seq_hard_stop(m)
             ELSE seq_request_soft_stop(m)
      [] Base(c) = CMD_READBACK -> send_readback(m, Timer(c))
      [] OTHER                  -> m

CmdBranch(m, c) ==
    CASE Base(c) = CMD_SET      -> IF Timer(c) = 1 THEN "set_fast" ELSE "set_slow"
      [] Base(c) = CMD_START    ->
             IF m.g_state = ST_IDLE THEN "start" ELSE "start_noop"
      [] Base(c) = CMD_STOP     ->
             IF m.g_exit = EXIT_HARD THEN "stop_hard"
             ELSE IF m.g_state = ST_RUN THEN "stop_run" ELSE "stop_idle"
      [] Base(c) = CMD_READBACK -> "readback"
      [] OTHER                  -> "unknown"

MainLoop ==
    /\ pc = "loop"
    /\ command_rcv = 1
    /\ command_rcv' = 0
    /\ LET c == rx_buf[1]
           v == rx_buf[2] + 256 * rx_buf[3]
           f == rx_buf[4]
       IN  /\ Commit(Execute(M, c, v, f))
           /\ ev' = Ev(CmdBranch(M, c))
           /\ pc' = IF CmdBranch(M, c) = "stop_hard" THEN "returned" ELSE "loop"
    /\ UNCHANGED rx_buf

-----------------------------------------------------------------------------
(* main(): the same iteration statement by statement, so that interrupts   *)
(* can come between two statements.  pc names the statement to run next:   *)
(* "loop" the test of command_rcv, "clear" its reset, "cmd", "lsb", "msb", *)
(* "flags" the reads of rx_buf[1] .. rx_buf[4] into the locals, "switch"   *)
(* the switch, "set_stop" .. "set_flags" the statements of apply_set.  The *)
(* other cases of the switch run as one step.  rx_buf is not volatile: the *)
(* reads are taken in program order, rx_buf[2] before rx_buf[3].           *)

main_read_cmd(m, buf) ==
    [m EXCEPT !.loc.cmd = buf[1],
              !.loc.base = Base(buf[1]),
              !.loc.timer = Timer(buf[1])]

main_read_lsb(m, buf) == [m EXCEPT !.loc.value = buf[2]]

main_read_msb(m, buf) == [m EXCEPT !.loc.value = (@ + 256 * buf[3]) % UINT16]

main_read_flags(m, buf) == [m EXCEPT !.loc.flags = buf[4]]

\* the end of the iteration: the locals go out of scope
main_end(m) == [m EXCEPT !.loc = NoLocals]

MainStep(at, to, m, op) ==
    /\ pc = at
    /\ pc' = to
    /\ Commit(m)
    /\ ev' = Ev(op)
    /\ UNCHANGED << command_rcv, rx_buf >>

Main_test ==
    /\ command_rcv = 1
    /\ MainStep("loop", "clear", M, "main_test")

Main_clear ==
    /\ pc = "clear"
    /\ pc' = "cmd"
    /\ command_rcv' = 0
    /\ Commit(M)
    /\ ev' = Ev("main_clear")
    /\ UNCHANGED rx_buf

Main_cmd   == MainStep("cmd", "lsb", main_read_cmd(M, rx_buf), "main_cmd")
Main_lsb   == MainStep("lsb", "msb", main_read_lsb(M, rx_buf), "main_lsb")
Main_msb   == MainStep("msb", "flags", main_read_msb(M, rx_buf), "main_msb")
Main_flags == MainStep("flags", "switch", main_read_flags(M, rx_buf),
                       "main_flags")

Main_switch ==
    IF loc.base = CMD_SET
    THEN MainStep("switch", "set_stop", M, "main_set")
    ELSE MainStep("switch",
                  IF CmdBranch(M, loc.cmd) = "stop_hard" THEN "returned"
                  ELSE "loop",
                  main_end(Execute(M, loc.cmd, loc.value, loc.flags)),
                  CmdBranch(M, loc.cmd))

Set_stop  == MainStep("set_stop", "set_clear",
                      apply_set_stop(M, loc.timer), "apply_set_stop")
Set_clear == MainStep("set_clear", "set_value",
                      apply_set_clear(M, loc.timer), "apply_set_clear")
Set_value == MainStep("set_value", "set_arr",
                      apply_set_value(M, loc.timer, loc.value),
                      "apply_set_value")
Set_arr   == MainStep("set_arr", "set_cnt",
                      apply_set_arr(M, loc.timer, loc.value), "apply_set_arr")
Set_cnt   == MainStep("set_cnt", "set_flags",
                      apply_set_cnt(M, loc.timer), "apply_set_cnt")
Set_flags == MainStep("set_flags", "loop",
                      main_end(apply_set_flags(M, loc.timer, loc.flags)),
                      CmdBranch(M, loc.cmd))

MainSteps ==
    \/ Main_test
    \/ Main_clear
    \/ Main_cmd
    \/ Main_lsb
    \/ Main_msb
    \/ Main_flags
    \/ Main_switch
    \/ Set_stop
    \/ Set_clear
    \/ Set_value
    \/ Set_arr
    \/ Set_cnt
    \/ Set_flags

-----------------------------------------------------------------------------
(* HAL_UARTEx_RxEventCallback: a receive event of Size bytes in rx *)

\* the HAL ends the armed reception before it calls the callback
HAL_UART_RxDone(m) == [m EXCEPT !.rx_armed = FALSE]

HAL_UARTEx_ReceiveToIdle_IT(m) == [m EXCEPT !.rx_armed = TRUE]

\* HAL_UARTEx_RxEventCallback without the re-arming of the reception
RxEventCallback_NoRearm(m) == m

\* the callback's effect on the program state apart from rx_buf, command_rcv
RxEventCallback(m) == HAL_UARTEx_ReceiveToIdle_IT(m)

\* HAL_UARTEx_RxEventCallback keeping a pending frame: a valid frame is
\* saved only when no command is pending
RxEventCallback_KeepPending(rx, Size, log) ==
    /\ rx_armed
    /\ IF Size = RX_SZ /\ rx[0] = PREAMBLE /\ command_rcv = 0
       THEN /\ rx_buf' = rx
            /\ command_rcv' = 1
            /\ ev' = EvRx("rx_saved", rx, Size, log)
       ELSE /\ ev' = EvRx("rx_discarded", rx, Size, log)
            /\ UNCHANGED << rx_buf, command_rcv >>
    /\ Commit(RxEventCallback(HAL_UART_RxDone(M)))
    /\ UNCHANGED pc

\* log: whether the history records the received bytes
HAL_UARTEx_RxEventCallback(rx, Size, log) ==
    /\ rx_armed
    /\ IF Size = RX_SZ /\ rx[0] = PREAMBLE
       THEN /\ rx_buf' = rx
            /\ command_rcv' = 1
            /\ ev' = EvRx("rx_saved", rx, Size, log)
       ELSE /\ ev' = EvRx("rx_discarded", rx, Size, log)
            /\ UNCHANGED << rx_buf, command_rcv >>
    /\ Commit(RxEventCallback(HAL_UART_RxDone(M)))
    /\ UNCHANGED pc

-----------------------------------------------------------------------------
(* Timer hardware: an enabled up-counter counts to ARR, then overflows,    *)
(* reloads 0 and raises the update flag UIF.  Counts above MaxCnt are not  *)
(* told apart.  With UIF raised and UIE enabled the update interrupt is    *)
(* taken: the HAL handler clears UIF and calls the callback, which runs to *)
(* completion.                                                             *)

CntTop(t) == IF t.arr < MaxCnt THEN t.arr ELSE MaxCnt

TIM_Tick(i) ==
    /\ htim[i].cen
    /\ htim[i].cnt < CntTop(htim[i])
    /\ Commit([M EXCEPT !.htim[i].cnt = @ + 1])
    /\ ev' = Ev("tick")
    /\ UNCHANGED << command_rcv, rx_buf, pc >>

TIM_Overflow(i) ==
    /\ htim[i].cen
    /\ htim[i].cnt >= CntTop(htim[i])
    /\ Commit([M EXCEPT !.htim[i].cnt = 0, !.htim[i].uif = TRUE])
    /\ ev' = Ev("overflow")
    /\ UNCHANGED << command_rcv, rx_buf, pc >>

TIM1_IRQ ==
    /\ htim[1].uif /\ htim[1].uie
    /\ Commit(TIM1_Callback([M EXCEPT !.htim[1] = CLEAR_FLAG(@)]))
    /\ ev' = Ev(Tim1Branch(M))
    /\ UNCHANGED << command_rcv, rx_buf, pc >>

\* limit: the continue branch is followed until pulse_count = limit
TIM2_IRQ(limit) ==
    /\ htim[2].uif /\ htim[2].uie
    /\ Tim2Branch(M) = "TIM2_continue" => pulse_count # limit
    /\ Commit(TIM2_Callback([M EXCEPT !.htim[2] = CLEAR_FLAG(@)]))
    /\ ev' = Ev(Tim2Branch(M))
    /\ UNCHANGED << command_rcv, rx_buf, pc >>

-----------------------------------------------------------------------------
(* Inputs: the frames the host sends *)

Frame(b0, b1, v, f) ==
    [i \in 0..(RX_SZ - 1) |->
        CASE i = 0 -> b0
          [] i = 1 -> b1
          [] i = 2 -> LowByte(v)
          [] i = 3 -> HighByte(v)
          [] OTHER -> f]

\* the sequencer's commands: SET of either channel, START, STOP, and a frame
\* with a wrong preamble
SeqFrames ==
    { Frame(PREAMBLE, CMD_SET, 500, 0),
      Frame(PREAMBLE, CMD_SET + 1, 500, 0),
      Frame(PREAMBLE, CMD_START, 2, 0),
      Frame(PREAMBLE, CMD_STOP, 0, 0),
      Frame(0, CMD_STOP, 0, 0) }

RxEvent(frames) ==
    \E rx \in frames, Size \in {RX_SZ - 1, RX_SZ} :
        HAL_UARTEx_RxEventCallback(rx, Size, FALSE)

\* the same receive events, the received bytes kept in the history
RxEventLogged(frames) ==
    \E rx \in frames, Size \in {RX_SZ - 1, RX_SZ} :
        HAL_UARTEx_RxEventCallback(rx, Size, TRUE)

-----------------------------------------------------------------------------
(* Initial state: after HAL_Init, MX_*_Init and the first ReceiveToIdle_IT *)

TimInit(period) ==
    [cen |-> FALSE, uie |-> FALSE, uif |-> FALSE, cnt |-> 0, arr |-> period]

Reset ==
    [g_state |-> ST_IDLE,
     g_t1_cnt |-> 0,
     g_exit |-> EXIT_NONE,
     pulse_count |-> 0,
     soll_pulse_count |-> SOLL_INIT,
     Tcfg |-> [t \in 1..2 |-> [value |-> 0, flags |-> 0]],
     htim |-> [t \in 1..2 |-> IF t = 1 THEN TimInit(TIM1_INIT_PERIOD)
                               ELSE TimInit(TIM2_INIT_PERIOD)],
     gpio |-> all_off,
     tx |-> << >>,
     rx_armed |-> TRUE,
     loc |-> NoLocals]

Init ==
    /\ Holds(Reset)
    /\ command_rcv = 0
    /\ rx_buf = [i \in 0..(RX_SZ - 1) |-> 0]
    /\ pc = "loop"
    /\ ev = EvIdle("init")

-----------------------------------------------------------------------------
(* The program: interrupts preempt the main loop between its iterations *)

Next ==
    \/ MainLoop
    \/ RxEvent(SeqFrames)
    \/ \E i \in 1..2 : TIM_Tick(i)
    \/ \E i \in 1..2 : TIM_Overflow(i)
    \/ TIM1_IRQ
    \/ TIM2_IRQ(MaxCycles)

Spec == Init /\ [][Next]_vars

-----------------------------------------------------------------------------
(* The sequencer with its whole interface: besides the commands, a caller  *)
(* may invoke seq_hard_stop() between any two steps.                       *)

HardStop ==
    /\ Commit(seq_hard_stop(M))
    /\ ev' = Ev("hard_stop")
    /\ UNCHANGED << command_rcv, rx_buf, pc >>

NextApi ==
    \/ Next
    \/ HardStop

SpecApi == Init /\ [][NextApi]_vars

-----------------------------------------------------------------------------
(* apply_set on every input: a SET frame for either channel, with any      *)
(* 16-bit value, has been received after reset and the main loop           *)
(* processes it.                                                           *)

SetValues == 0 .. (UINT16 - 1)
SetFlags  == {0, UINT8 - 1}

InitSet ==
    /\ Holds(Reset)
    /\ command_rcv = 1
    /\ rx_buf \in { Frame(PREAMBLE, c, v, f) :
                       c \in {CMD_SET, CMD_SET + 1},
                       v \in SetValues, f \in SetFlags }
    /\ pc = "loop"
    /\ ev = EvIdle("rx_saved")

NextSet == MainLoop

SpecSet == InitSet /\ [][NextSet]_vars

-----------------------------------------------------------------------------
(* Configuration and readback during runs: SET of either channel (a Fast   *)
(* value above the range, a Slow value inside it), READBACK of either      *)
(* channel, START and STOP, with the timers running.                       *)

ConfigFrames ==
    { Frame(PREAMBLE, CMD_SET, 1500, 1),
      Frame(PREAMBLE, CMD_SET + 1, 300, 2),
      Frame(PREAMBLE, CMD_READBACK, 0, 0),
      Frame(PREAMBLE, CMD_READBACK + 1, 0, 0),
      Frame(PREAMBLE, CMD_START, 1, 0),
      Frame(PREAMBLE, CMD_STOP, 0, 0) }

NextConfig ==
    \/ MainLoop
    \/ RxEvent(ConfigFrames)
    \/ \E i \in 1..2 : TIM_Tick(i)
    \/ \E i \in 1..2 : TIM_Overflow(i)
    \/ TIM1_IRQ
    \/ TIM2_IRQ(MaxCycles)

SpecConfig == Init /\ [][NextConfig]_vars

-----------------------------------------------------------------------------
(* The protocol with framing errors and unknown commands: valid frames of  *)
(* every command (READBACK with other low bits set as well), two command   *)
(* bytes that are no command, and frames with a wrong first byte; every    *)
(* frame also arrives cut short.  The history keeps the received bytes.    *)

ProtoFrames ==
    { Frame(PREAMBLE, CMD_SET + 1, 300, 2),
      Frame(PREAMBLE, CMD_START, 1, 0),
      Frame(PREAMBLE, CMD_STOP, 0, 0),
      Frame(PREAMBLE, CMD_READBACK + 15, 0, 0),
      Frame(PREAMBLE, 80, 300, 2),
      Frame(PREAMBLE, 1, 300, 2),
      Frame(PREAMBLE - 1, CMD_STOP, 0, 0),
      Frame(0, CMD_START, 1, 0) }

NextProto ==
    \/ MainLoop
    \/ RxEventLogged(ProtoFrames)
    \/ \E i \in 1..2 : TIM_Tick(i)
    \/ \E i \in 1..2 : TIM_Overflow(i)
    \/ TIM1_IRQ
    \/ TIM2_IRQ(MaxCycles)

SpecProto == Init /\ [][NextProto]_vars

-----------------------------------------------------------------------------
(* The decoder on every command byte: a valid frame with any command byte, *)
(* a value with both bytes used and either flags byte has been saved after *)
(* reset; the command loop handles it statement by statement, with no      *)
(* further reception.                                                      *)

DecodeValues == {0, UINT8 - 1, UINT8, 500, UINT16 - 1}
DecodeFlags  == {0, 165}

InitDecode ==
    /\ Holds(Reset)
    /\ command_rcv = 1
    /\ rx_buf \in { Frame(PREAMBLE, c, v, f) :
                       c \in 0..(UINT8 - 1),
                       v \in DecodeValues, f \in DecodeFlags }
    /\ pc = "loop"
    /\ ev = EvIdle("rx_saved")

NextDecode == MainSteps

SpecDecode == InitDecode /\ [][NextDecode]_vars

-----------------------------------------------------------------------------
(* The command handoff with the receive interrupt between any two          *)
(* statements of the command loop: the host sends SET Fast 500 us with     *)
(* flags 1, START, STOP and a frame with a wrong first byte, at any time.  *)

StepFrames ==
    { Frame(PREAMBLE, CMD_SET, 500, 1),
      Frame(PREAMBLE, CMD_START, 2, 0),
      Frame(PREAMBLE, CMD_STOP, 0, 0),
      Frame(0, CMD_STOP, 0, 0) }

NextSteps ==
    \/ MainSteps
    \/ RxEventLogged(StepFrames)

SpecSteps == Init /\ [][NextSteps]_vars

-----------------------------------------------------------------------------
(* seq_start() statement by statement, so that the timer interrupts can    *)
(* come between two of its statements.  The main loop takes a pending      *)
(* START up to the call (flag reset, decode, soll_pulse_count = value) in  *)
(* one step; pc then names the statement of seq_start to run next:         *)
(* "start_guard" the test of g_state, "start_exit" g_exit = EXIT_NONE,     *)
(* "start_phase" g_t1_cnt = 0, "start_cnt1", "start_cnt2" the counter      *)
(* resets, "start_clr1", "start_clr2" the flag clears, "start_it1",        *)
(* "start_it2" the two HAL_TIM_Base_Start_IT, "start_run" g_state = ST_RUN. *)
(* The other commands run as one step.                                     *)

StartPcs == << "start_exit", "start_phase", "start_cnt1", "start_cnt2",
               "start_clr1", "start_clr2", "start_it1", "start_it2",
               "start_run" >>

\* the effect of the statement of seq_start that pc names
seq_start_stmt(m, at) ==
    CASE at = "start_exit"  -> [m EXCEPT !.g_exit = EXIT_NONE]
      [] at = "start_phase" -> [m EXCEPT !.g_t1_cnt = 0]
      [] at = "start_cnt1"  -> [m EXCEPT !.htim[1] = SET_COUNTER(@, 0)]
      [] at = "start_cnt2"  -> [m EXCEPT !.htim[2] = SET_COUNTER(@, 0)]
      [] at = "start_clr1"  -> [m EXCEPT !.htim[1] = CLEAR_FLAG(@)]
      [] at = "start_clr2"  -> [m EXCEPT !.htim[2] = CLEAR_FLAG(@)]
      [] at = "start_it1"   -> [m EXCEPT !.htim[1] = HAL_TIM_Base_Start_IT(@)]
      [] at = "start_it2"   -> [m EXCEPT !.htim[2] = HAL_TIM_Base_Start_IT(@)]
      [] at = "start_run"   -> [m EXCEPT !.g_state = ST_RUN]

Start_enter ==
    /\ pc = "loop"
    /\ command_rcv = 1
    /\ Base(rx_buf[1]) = CMD_START
    /\ command_rcv' = 0
    /\ pc' = "start_guard"
    /\ Commit([M EXCEPT !.soll_pulse_count =
                            (rx_buf[2] + 256 * rx_buf[3]) % UINT8])
    /\ ev' = Ev("start_enter")
    /\ UNCHANGED rx_buf

Start_guard ==
    IF g_state # ST_IDLE
    THEN MainStep("start_guard", "loop", M, "start_noop")
    ELSE MainStep("start_guard", StartPcs[1], M, "start_guard")

Start_stmt ==
    \E k \in 1..Len(StartPcs) :
        MainStep(StartPcs[k],
                 IF k = Len(StartPcs) THEN "loop" ELSE StartPcs[k + 1],
                 seq_start_stmt(M, StartPcs[k]),
                 IF k = Len(StartPcs) THEN "start" ELSE StartPcs[k])

MainLoopOther ==
    /\ Base(rx_buf[1]) # CMD_START
    /\ MainLoop

StartFrames ==
    { Frame(PREAMBLE, CMD_START, 2, 0),
      Frame(PREAMBLE, CMD_STOP, 0, 0) }

NextStart ==
    \/ Start_enter
    \/ Start_guard
    \/ Start_stmt
    \/ MainLoopOther
    \/ RxEvent(StartFrames)
    \/ \E i \in 1..2 : TIM_Tick(i)
    \/ \E i \in 1..2 : TIM_Overflow(i)
    \/ TIM1_IRQ
    \/ TIM2_IRQ(MaxCycles)

SpecStart == Init /\ [][NextStart]_vars

-----------------------------------------------------------------------------
(* Scheduling: the main loop polls command_rcv for ever, an enabled timer   *)
(* keeps counting and reaches its auto-reload value, and a pending enabled  *)
(* update interrupt is taken.  Nothing is assumed of the host.              *)

Fairness ==
    /\ WF_vars(MainLoop)
    /\ \A i \in 1..2 : WF_vars(TIM_Tick(i)) /\ WF_vars(TIM_Overflow(i))
    /\ WF_vars(TIM1_IRQ)
    /\ WF_vars(TIM2_IRQ(MaxCycles))

SpecFair == Init /\ [][Next]_vars /\ Fairness

-----------------------------------------------------------------------------
(* Timed runs.  The prescalers make TIM1 count every 10 us and TIM2 every   *)
(* 100 us, so in one step of 100 us an enabled TIM1 counts 10 and an       *)
(* enabled TIM2 counts 1; a counter that passes its auto-reload value      *)
(* wraps and raises UIF.  A pending enabled update interrupt is taken      *)
(* before time goes on.  The start is the Idle state after SET Fast 100 us *)
(* and SET Slow 1 ms; the host may then SET Fast to 1000 us, START and     *)
(* STOP (periods of at least one step, so that a step holds at most one    *)
(* expiry per timer).                                                      *)

TIM1_PER_STEP == 10
TIM2_PER_STEP == 1

TicksPerStep(i) == IF i = 1 THEN TIM1_PER_STEP ELSE TIM2_PER_STEP

Advance(t, n) ==
    IF ~t.cen THEN t
    ELSE IF t.cnt + n > t.arr
         THEN [t EXCEPT !.cnt = t.cnt + n - (t.arr + 1), !.uif = TRUE]
         ELSE [t EXCEPT !.cnt = t.cnt + n]

TimeStep ==
    /\ \A i \in 1..2 : ~(htim[i].uif /\ htim[i].uie)
    /\ \E i \in 1..2 : htim[i].cen
    /\ Commit([M EXCEPT !.htim = [i \in 1..2 |->
                                    Advance(htim[i], TicksPerStep(i))]])
    /\ ev' = Ev("time")
    /\ UNCHANGED << command_rcv, rx_buf, pc >>

TimedFrames ==
    { Frame(PREAMBLE, CMD_SET, T1_US_MAX, 0),
      Frame(PREAMBLE, CMD_START, 2, 0),
      Frame(PREAMBLE, CMD_STOP, 0, 0) }

InitTimed ==
    /\ Holds(apply_set(apply_set(Reset, 1, 100, 0), 2, T2_MS_MIN, 0))
    /\ command_rcv = 0
    /\ rx_buf = Frame(PREAMBLE, CMD_SET + 1, T2_MS_MIN, 0)
    /\ pc = "loop"
    /\ ev = EvIdle("set_slow")

NextTimed ==
    \/ MainLoop
    \/ RxEvent(TimedFrames)
    \/ TimeStep
    \/ TIM1_IRQ
    \/ TIM2_IRQ(MaxCycles)

SpecTimed == InitTimed /\ [][NextTimed]_vars

-----------------------------------------------------------------------------
(* Runs across the wrap of the cycle counter.  pulse_count is a uint8_t     *)
(* that no function resets, so it goes on from run to run; the start is    *)
(* the Idle state MaxCycles cycles before it wraps, after a SET of the     *)
(* Fast channel to 500 us (so that the Fast timer counts above 0).         *)

CycleFrames ==
    { Frame(PREAMBLE, CMD_START, SOLL_INIT, 0),
      Frame(PREAMBLE, CMD_STOP, 0, 0) }

InitCycles ==
    /\ Holds(apply_set([Reset EXCEPT !.pulse_count = UINT8 - MaxCycles],
                       1, 500, 0))
    /\ command_rcv = 0
    /\ rx_buf = Frame(PREAMBLE, CMD_SET, 500, 0)
    /\ pc = "loop"
    /\ ev = EvIdle("set_fast")

NextCycles ==
    \/ MainLoop
    \/ RxEvent(CycleFrames)
    \/ \E i \in 1..2 : TIM_Tick(i)
    \/ \E i \in 1..2 : TIM_Overflow(i)
    \/ TIM1_IRQ
    \/ TIM2_IRQ(MaxCycles)

SpecCycles == InitCycles /\ [][NextCycles]_vars

-----------------------------------------------------------------------------
(* Vocabulary of the properties *)

Tim1Ops == {"TIM1_ignored", "TIM1_pulse1", "TIM1_pulse2", "TIM1_off",
            "TIM1_default"}
Tim2Ops == {"TIM2_ignored", "TIM2_stop", "TIM2_continue"}

PositivePulse(g) ==
    g.Drive_Left /\ g.Enable_Left /\ ~g.Drive_Right /\ g.Enable_Right
NegativePulse(g) ==
    ~g.Drive_Left /\ g.Enable_Left /\ g.Drive_Right /\ g.Enable_Right
AllOff(g) ==
    ~g.Drive_Left /\ ~g.Enable_Left /\ ~g.Drive_Right /\ ~g.Enable_Right

Stopped(t) == ~t.cen /\ ~t.uie

-----------------------------------------------------------------------------
(* C1: a cycle starts with phase 0 and the Fast timer armed (START taken   *)
(* while Idle, or the Slow handler's re-arm); from there the Fast expiries *)
(* handled while Running command positive pulse (phase 0 -> 1), negative   *)
(* pulse (1 -> 2), then all-off with the Fast timer stopped (phase stays   *)
(* 2); while Running no step other than a timer handler changes phase or   *)
(* bridge, and one more call of the Fast handler after the third expiry    *)
(* changes neither bridge nor phase.                                       *)
C1_FastSequence ==
    [][ /\ ev'.op \in {"start", "TIM2_continue"} =>
              /\ g_state' = ST_RUN
              /\ g_t1_cnt' = 0
              /\ Armed(htim'[1])
        /\ (ev'.op \in Tim1Ops /\ g_state = ST_RUN /\ g_t1_cnt = 0) =>
              PositivePulse(gpio') /\ g_t1_cnt' = 1
        /\ (ev'.op \in Tim1Ops /\ g_state = ST_RUN /\ g_t1_cnt = 1) =>
              NegativePulse(gpio') /\ g_t1_cnt' = 2
        /\ (ev'.op \in Tim1Ops /\ g_state = ST_RUN /\ g_t1_cnt = 2) =>
              AllOff(gpio') /\ g_t1_cnt' = 2 /\ Stopped(htim'[1])
        /\ (g_state = ST_RUN /\ ev'.op \notin (Tim1Ops \cup Tim2Ops)) =>
              g_t1_cnt' = g_t1_cnt /\ gpio' = gpio
        /\ (ev.op = "TIM1_off") =>
              /\ ~ENABLED TIM1_IRQ
              /\ TIM1_Callback(M).gpio = gpio
              /\ TIM1_Callback(M).g_t1_cnt = g_t1_cnt
      ]_vars

\* the third Fast expiry of a cycle the Slow handler re-armed has been handled
C1_Witness ==
    /\ ev.op = "TIM1_off"
    /\ ev.st = ST_RUN /\ ev.ph = 2
    /\ pulse_count >= 1
    /\ AllOff(gpio)
    /\ Stopped(htim[1])

-----------------------------------------------------------------------------
(* C2 (as amended): a Slow expiry handled while Running with a soft stop   *)
(* pending stops the Slow timer, clears its update flag and leaves Idle,   *)
(* phase 0, no exit request, the cycle counter and the Fast timer          *)
(* untouched; handled while Running with no soft stop pending it keeps     *)
(* Running, sets phase 0, advances the cycle counter by one modulo 256     *)
(* (255 is followed by 0), zeroes the Fast timer's counter, clears its     *)
(* update flag and arms it; handled while Idle it changes nothing.         *)
C2_SlowHandler ==
    [][ /\ (ev'.op \in Tim2Ops /\ g_state = ST_RUN /\ g_exit = EXIT_SOFT) =>
              /\ Stopped(htim'[2]) /\ ~htim'[2].uif
              /\ g_state' = ST_IDLE /\ g_t1_cnt' = 0 /\ g_exit' = EXIT_NONE
              /\ pulse_count' = pulse_count
              /\ htim'[1] = htim[1]
        /\ (ev'.op \in Tim2Ops /\ g_state = ST_RUN /\ g_exit # EXIT_SOFT) =>
              /\ g_state' = ST_RUN /\ g_t1_cnt' = 0
              /\ pulse_count' = (pulse_count + 1) % UINT8
              /\ htim'[1].cnt = 0 /\ ~htim'[1].uif /\ Armed(htim'[1])
        /\ g_state = ST_IDLE => TIM2_Callback(M) = M
      ]_vars

\* C2 as stated: the cycle counter grows by exactly one at every cycle
C2_CounterPlusOne ==
    [][ (ev'.op \in Tim2Ops /\ g_state = ST_RUN /\ g_exit # EXIT_SOFT) =>
            pulse_count' = pulse_count + 1 ]_vars

\* a soft stop has been taken at a cycle boundary after the counter wrapped
\* and the Fast timer was re-armed from a nonzero count
C2_Witness ==
    /\ ev.op = "TIM2_stop" /\ ev.st = ST_RUN /\ ev.ex = EXIT_SOFT
    /\ g_state = ST_IDLE
    /\ pulse_count = 1
    /\ Stopped(htim[2])

-----------------------------------------------------------------------------
(* C3: whenever a STOP has been processed while Running, the sequencer     *)
(* eventually is Idle, whatever commands are processed in between, given   *)
(* that armed timers keep expiring and their interrupts are taken.         *)
C3_StopReachesIdle ==
    (ev.op = "stop_run") ~> (g_state = ST_IDLE)

-----------------------------------------------------------------------------
(* C4: a soft stop lets the pulse pair of the current cycle finish, so     *)
(* whenever the sequencer is Idle all four bridge outputs are off, for     *)
(* every valid configuration of the two periods.                           *)
C4_IdleAllOff ==
    g_state = ST_IDLE => AllOff(gpio)

-----------------------------------------------------------------------------
(* C5: seq_hard_stop, called in any state, leaves Idle, phase 0, no exit   *)
(* request, all four bridge outputs off and both timers stopped with       *)
(* their update flags cleared.                                             *)
C5_HardStop ==
    [][ ev'.op = "hard_stop" =>
            /\ g_state' = ST_IDLE /\ g_t1_cnt' = 0 /\ g_exit' = EXIT_NONE
            /\ AllOff(gpio')
            /\ \A i \in 1..2 : Stopped(htim'[i]) /\ ~htim'[i].uif
      ]_vars

\* seq_hard_stop has been called in the middle of a pulse with a soft stop
\* pending
C5_Witness ==
    /\ ev.op = "hard_stop"
    /\ ev.st = ST_RUN /\ ev.ph = 1 /\ ev.ex = EXIT_SOFT
    /\ g_state = ST_IDLE /\ AllOff(gpio)

-----------------------------------------------------------------------------
(* C6: a START processed while Running leaves state, phase, exit request,  *)
(* the bridge outputs and the registers of both timers (enable bits,       *)
(* counters, flags) as they were.                                          *)
C6_StartWhileRunning ==
    [][ (ev'.op \in {"start", "start_noop"} /\ g_state = ST_RUN) =>
            /\ g_state' = g_state /\ g_t1_cnt' = g_t1_cnt /\ g_exit' = g_exit
            /\ gpio' = gpio
            /\ htim' = htim
      ]_vars

\* a START has been processed in the middle of a positive pulse, both timers
\* armed and a soft stop pending
C6_Witness ==
    /\ ev.op = "start_noop"
    /\ ev.st = ST_RUN /\ ev.ph = 1 /\ ev.ex = EXIT_SOFT
    /\ g_state = ST_RUN /\ g_t1_cnt = 1 /\ g_exit = EXIT_SOFT
    /\ PositivePulse(gpio)
    /\ Armed(htim[1]) /\ Armed(htim[2])

-----------------------------------------------------------------------------
(* C7: the state goes from Running to Idle only in the Slow handler with a *)
(* soft stop pending or in seq_hard_stop; an exit request is raised only   *)
(* by a STOP command; and a Slow expiry that finds no soft stop pending    *)
(* keeps Running and raises no exit request also when the cycle counter    *)
(* has reached or passed the target given with START.                      *)
C7_OnlyStopEndsRun ==
    [][ /\ (g_state = ST_RUN /\ g_state' = ST_IDLE) =>
              \/ ev'.op = "hard_stop"
              \/ ev'.op \in Tim2Ops /\ g_exit = EXIT_SOFT
        /\ (g_exit' # g_exit /\ g_exit' # EXIT_NONE) =>
              ev'.op \in {"stop_run", "stop_idle"}
        /\ (/\ ev'.op \in Tim2Ops
            /\ g_state = ST_RUN /\ g_exit # EXIT_SOFT
            /\ pulse_count' >= soll_pulse_count) =>
              g_state' = ST_RUN /\ g_exit' = g_exit
      ]_vars

\* the run goes on after the cycle counter reached the target of START
C7_Witness ==
    /\ ev.op = "TIM2_continue"
    /\ g_state = ST_RUN /\ g_exit = EXIT_NONE
    /\ soll_pulse_count > 0
    /\ pulse_count >= soll_pulse_count

-----------------------------------------------------------------------------
(* The raw 16-bit value and the channel of the frame the main loop decodes *)
RawValue == rx_buf[2] + 256 * rx_buf[3]
Channel  == IF rx_buf[1] % 2 = 1 THEN 2 ELSE 1

(* C8: a SET of the Fast channel with raw value v stores v if              *)
(* 10 <= v <= 1000, 10 if v < 10 and 1000 if v > 1000; the tick count      *)
(* (stored value + 5) div 10 lies in 1..100 and the auto-reload register   *)
(* holds it minus one; the flags byte is stored as received.               *)
C8_SetFast ==
    [][ ev'.op = "set_fast" =>
            LET v  == RawValue
                cv == IF v < 10 THEN 10 ELSE IF v > 1000 THEN 1000 ELSE v
                ticks == (cv + 5) \div 10
            IN  /\ Tcfg'[1].value = cv
                /\ ticks \in 1..100
                /\ htim'[1].arr = ticks - 1
                /\ Tcfg'[1].flags = rx_buf[4]
      ]_vars

\* a Fast SET above the range has been clamped to 1000 us, 100 ticks
C8_Witness ==
    /\ ev.op = "set_fast"
    /\ RawValue > 1000
    /\ Tcfg[1].value = 1000 /\ htim[1].arr = 99
    /\ Tcfg[1].flags = 255

(* C9: a SET of the Slow channel with raw value v stores v if              *)
(* 1 <= v <= 10000, 1 if v = 0 and 10000 if v > 10000; the tick count      *)
(* 10 * stored value lies in 10..100000 and the auto-reload register       *)
(* holds it minus one; the flags byte is stored as received.               *)
C9_SetSlow ==
    [][ ev'.op = "set_slow" =>
            LET v  == RawValue
                cv == IF v = 0 THEN 1 ELSE IF v > 10000 THEN 10000 ELSE v
                ticks == 10 * cv
            IN  /\ Tcfg'[2].value = cv
                /\ ticks \in 10..100000
                /\ ticks >= 5
                /\ htim'[2].arr = ticks - 1
                /\ Tcfg'[2].flags = rx_buf[4]
      ]_vars

\* a Slow SET of 0 has been raised to 1 ms, 10 ticks
C9_Witness ==
    /\ ev.op = "set_slow"
    /\ RawValue = 0
    /\ Tcfg[2].value = 1 /\ htim[2].arr = 9
    /\ Tcfg[2].flags = 255

-----------------------------------------------------------------------------
(* C10: a READBACK transmits the five bytes 0xFF, 0x40 (Fast) or 0x41      *)
(* (Slow), low byte and high byte of the channel's stored value, and its   *)
(* stored flags; the stored value and flags of a channel are 0 at reset    *)
(* and change only when a SET of that channel is processed, which stores   *)
(* the clamped value and the flags of its frame; so the frame holds what   *)
(* the last SET of the channel applied, whatever else happened since.      *)
C10_Readback ==
    /\ \A ch \in 1..2 : Tcfg[ch].value = 0 /\ Tcfg[ch].flags = 0
    /\ [][ /\ ev'.op = "readback" =>
                  /\ Len(tx') = 5
                  /\ tx'[1] = 255
                  /\ tx'[2] = (IF Channel = 1 THEN 64 ELSE 65)
                  /\ tx'[3] = Tcfg[Channel].value % 256
                  /\ tx'[4] = Tcfg[Channel].value \div 256
                  /\ tx'[5] = Tcfg[Channel].flags
                  /\ Tcfg' = Tcfg
            /\ \A ch \in 1..2 :
                  Tcfg'[ch] # Tcfg[ch] =>
                      /\ ev'.op = (IF ch = 1 THEN "set_fast" ELSE "set_slow")
                      /\ Tcfg'[ch].flags = rx_buf[4]
                      /\ Tcfg'[ch].value =
                             (IF ch = 1
                              THEN (IF RawValue < 10 THEN 10
                                    ELSE IF RawValue > 1000 THEN 1000
                                    ELSE RawValue)
                              ELSE (IF RawValue < 1 THEN 1
                                    ELSE IF RawValue > 10000 THEN 10000
                                    ELSE RawValue))
          ]_vars

\* the Slow channel, set to 300 ms with flags 2, has been read back during a
\* run, after a clamped SET of the Fast channel
C10_Witness ==
    /\ ev.op = "readback" /\ ev.st = ST_RUN
    /\ tx = << 255, 65, 44, 1, 2 >>
    /\ Tcfg[1].value = 1000 /\ Tcfg[1].flags = 1
    /\ pulse_count >= 1

-----------------------------------------------------------------------------
(* Steps of the receive callback and of the command loop, by their history *)
RxOps   == {"rx_saved", "rx_discarded"}
MainOps == {"set_fast", "set_slow", "start", "start_noop", "stop_hard",
            "stop_run", "stop_idle", "readback", "unknown"}

\* nothing of the sequencer, the configuration, the bridge, the timers or
\* the transmitter changes in the step
SameMachine ==
    /\ g_state' = g_state /\ g_t1_cnt' = g_t1_cnt /\ g_exit' = g_exit
    /\ pulse_count' = pulse_count /\ soll_pulse_count' = soll_pulse_count
    /\ Tcfg' = Tcfg /\ htim' = htim /\ gpio' = gpio /\ tx' = tx

(* C11: a receive event whose length is not 5 or whose first byte is not   *)
(* 0xFF leaves the pending-command flag and the saved frame as they were,  *)
(* executes nothing and transmits nothing; after every receive event,      *)
(* valid or not, the reception is armed again.                             *)
C11_FramingError ==
    [][ /\ (ev'.op \in RxOps /\ (ev'.size # 5 \/ ev'.rx[0] # 255)) =>
              /\ command_rcv' = command_rcv
              /\ rx_buf' = rx_buf
              /\ SameMachine
              /\ pc' = pc
        /\ ev'.op \in RxOps => rx_armed'
      ]_vars

\* a full-length frame with a wrong first byte has been discarded during a
\* run while another command was pending
C11_Witness ==
    /\ ev.op = "rx_discarded"
    /\ ev.size = 5 /\ ev.rx[0] = 254
    /\ ev.cr = 1 /\ command_rcv = 1
    /\ rx_buf # ev.rx
    /\ g_state = ST_RUN
    /\ rx_armed

-----------------------------------------------------------------------------
(* C12: processing a READBACK, or a command byte whose upper nibble is     *)
(* none of 1, 2, 3, 4, changes neither state, phase, exit request, the     *)
(* stored value and flags of either channel, the bridge outputs nor the    *)
(* timers, and the command loop goes on.                                   *)
C12_NoEffect ==
    [][ (/\ ev'.op \in MainOps
         /\ \/ rx_buf[1] \div 16 = 4
            \/ rx_buf[1] \div 16 \notin {1, 2, 3, 4}) =>
            /\ g_state' = g_state /\ g_t1_cnt' = g_t1_cnt /\ g_exit' = g_exit
            /\ Tcfg' = Tcfg
            /\ gpio' = gpio
            /\ htim' = htim
            /\ pc' = "loop"
      ]_vars

\* the command byte 0x50 has been processed during a run, in the middle of
\* a pulse, with the Slow channel configured
C12_Witness ==
    /\ ev.op = "unknown"
    /\ rx_buf[1] = 80
    /\ ev.st = ST_RUN /\ g_state = ST_RUN /\ g_t1_cnt = 1
    /\ Tcfg[2].value = 300
    /\ pc = "loop"

-----------------------------------------------------------------------------
(* C13: when the switch is reached the locals hold the channel given by    *)
(* bit 0 of byte 1 (even Fast, odd Slow), the value byte 2 + 256 * byte 3  *)
(* and the flags of byte 4, and the switch takes the operation given by    *)
(* the upper nibble of byte 1: 1 SET (apply_set is entered and stores the  *)
(* flags for that channel), 2 START (the value becomes the pulse target    *)
(* and the run starts), 3 STOP (a soft stop is requested), 4 READBACK (the *)
(* frame of that channel is transmitted), anything else no operation.      *)
C13_Decode ==
    [][ LET n  == rx_buf[1] \div 16
            ch == IF rx_buf[1] % 2 = 0 THEN 1 ELSE 2
        IN  /\ pc = "switch" =>
                  /\ loc.timer = ch
                  /\ loc.value = rx_buf[2] + 256 * rx_buf[3]
                  /\ loc.flags = rx_buf[4]
                  /\ (n = 1) <=> (pc' = "set_stop")
                  /\ (n = 2) <=> (ev'.op \in {"start", "start_noop"})
                  /\ (n = 2) => /\ soll_pulse_count' = loc.value % 256
                                /\ g_state' = ST_RUN
                  /\ (n = 3) <=> (ev'.op \in {"stop_run", "stop_idle"})
                  /\ (n = 3) => g_exit' = EXIT_SOFT
                  /\ (n = 4) <=> (ev'.op = "readback")
                  /\ (n = 4) => tx'[2] = 63 + ch
                  /\ (n \notin 1..4) <=> (ev'.op = "unknown")
                  /\ (n \notin 1..4) => SameMachine
            /\ pc = "set_flags" =>
                  /\ n = 1
                  /\ Tcfg'[ch].flags = rx_buf[4]
                  /\ Tcfg'[3 - ch] = Tcfg[3 - ch]
      ]_vars

\* a READBACK of the Slow channel with bits 1 and 2 of the command byte
\* set and both value bytes used has been decoded
C13_Witness ==
    /\ pc = "switch"
    /\ rx_buf[1] = 71
    /\ loc.base = 64 /\ loc.timer = 2
    /\ rx_buf[2] = 244 /\ rx_buf[3] = 1 /\ loc.value = 500
    /\ loc.flags = 165

-----------------------------------------------------------------------------
(* C14: for every valid pair of periods, whenever the Slow handler runs    *)
(* while Running the Fast handler of that cycle is through: phase 2, the   *)
(* Fast timer stopped and all bridge outputs off.                          *)
C14_FastDoneAtSlowExpiry ==
    [][ (ev'.op \in Tim2Ops /\ g_state = ST_RUN) =>
            /\ g_t1_cnt = 2
            /\ Stopped(htim[1])
            /\ AllOff(gpio)
      ]_vars

-----------------------------------------------------------------------------
(* C15: the command byte, the value and the flags of every command the     *)
(* main loop executes come from one and the same frame the host sent.      *)
C15_NoTornRead ==
    pc = "switch" =>
        \E f \in StepFrames :
            /\ f[0] = PREAMBLE
            /\ loc.cmd = f[1]
            /\ loc.value = f[2] + 256 * f[3]
            /\ loc.flags = f[4]

-----------------------------------------------------------------------------
\* one step of the handoff between the receive interrupt and the main loop
MailboxStep ==
    /\ (ev'.op \in RxOps /\ ev'.size = 5 /\ ev'.rx[0] = 255) =>
          (rx_buf' = ev'.rx /\ command_rcv' = 1)
    /\ (rx_buf' # rx_buf) => (ev'.op \in RxOps)
    /\ (command_rcv = 0 /\ command_rcv' = 1) => (ev'.op \in RxOps)
    /\ (command_rcv = 1 /\ command_rcv' = 0) =>
          (pc = "clear" /\ pc' = "cmd" /\ rx_buf' = rx_buf)
    /\ (pc = "loop" /\ pc' # "loop") =>
          (command_rcv = 1 /\ pc' = "clear")
    /\ (pc = "clear" /\ pc' # "clear") =>
          (command_rcv' = 0 /\ pc' = "cmd")
    /\ (pc = "cmd" /\ pc' # "cmd") =>
          (loc'.cmd = rx_buf[1] /\ pc' = "lsb")
    /\ (pc = "lsb" /\ pc' # "lsb") =>
          (loc'.value = rx_buf[2] /\ pc' = "msb")
    /\ (pc = "msb" /\ pc' # "msb") =>
          (loc'.value = loc.value + 256 * rx_buf[3] /\ pc' = "flags")
    /\ (pc = "flags" /\ pc' # "flags") =>
          (loc'.flags = rx_buf[4] /\ pc' = "switch")
    /\ (pc \notin {"loop", "clear"} /\ ev'.op \notin RxOps) =>
          (command_rcv' = command_rcv)

-----------------------------------------------------------------------------
(* C20: apply_set records the configured value only after the timer has    *)
(* been stopped, its update flag cleared, the new period programmed into   *)
(* the auto-reload register and the counter reset.                         *)
C20_RecordAfterProgramming ==
    [][ \A ch \in 1..2 :
          Tcfg'[ch].value # Tcfg[ch].value =>
              /\ ~htim[ch].cen
              /\ ~htim[ch].uif
              /\ htim[ch].arr + 1 =
                     (IF ch = 1 THEN (Tcfg'[ch].value + 5) \div 10
                      ELSE 10 * Tcfg'[ch].value)
              /\ htim[ch].cnt = 0
      ]_vars

-----------------------------------------------------------------------------
(* C17: a SET executed while the sequencer is Running leaves state, phase, *)
(* exit request and bridge outputs as they were, and a timer that was      *)
(* armed before the SET is armed after it.                                 *)
C17_SetWhileRunning ==
    [][ (ev'.op \in MainOps /\ Base(rx_buf[1]) = CMD_SET /\
         g_state = ST_RUN) =>
            /\ g_state' = g_state
            /\ g_t1_cnt' = g_t1_cnt
            /\ g_exit' = g_exit
            /\ gpio' = gpio
            /\ \A i \in 1..2 : Armed(htim[i]) => Armed(htim'[i])
      ]_vars

-----------------------------------------------------------------------------
(* C18: whenever the sequencer is Idle no exit request is recorded.        *)
C18_IdleNoExit == (g_state = ST_IDLE) => (g_exit = EXIT_NONE)

-----------------------------------------------------------------------------
(* C19: a START executed while Idle leaves the sequencer Running with      *)
(* phase 0, no exit request, both timers' counters 0, both update flags    *)
(* clear and both timers armed, whatever was recorded before it.           *)
C19_StartFromIdle ==
    [][ (ev'.op \in MainOps /\ Base(rx_buf[1]) = CMD_START /\
         g_state = ST_IDLE) =>
            /\ g_state' = ST_RUN
            /\ g_t1_cnt' = 0
            /\ g_exit' = EXIT_NONE
            /\ \A i \in 1..2 :
                  /\ htim'[i].cnt = 0
                  /\ ~htim'[i].uif
                  /\ Armed(htim'[i])
      ]_vars

\* a START has been executed while Idle with the soft stop of an earlier
\* STOP still recorded
C19_Witness ==
    /\ ev.op = "start"
    /\ ev.st = ST_IDLE
    /\ ev.ex = EXIT_SOFT
    /\ g_state = ST_RUN
    /\ g_exit = EXIT_NONE
    /\ Armed(htim[1]) /\ Armed(htim[2])

-----------------------------------------------------------------------------
(* C21: the exit request is always None or SoftStop; a STOP the main loop  *)
(* executes records the soft stop, changes nothing else of the sequencer,  *)
(* the timers or the bridge, and the command loop goes on.                 *)
C21_NoHardStopLatched ==
    /\ [](g_exit \in {EXIT_NONE, EXIT_SOFT})
    /\ [](pc # "returned")
    /\ [][ (ev'.op \in MainOps /\ Base(rx_buf[1]) = CMD_STOP) =>
              /\ ev'.op \in {"stop_run", "stop_idle"}
              /\ g_exit' = EXIT_SOFT
              /\ g_state' = g_state /\ g_t1_cnt' = g_t1_cnt
              /\ htim' = htim /\ gpio' = gpio
              /\ pc' = "loop"
        ]_vars

\* a STOP has been executed during a run and recorded the soft stop
C21_Witness ==
    /\ ev.op = "stop_run"
    /\ ev.st = ST_RUN
    /\ g_state = ST_RUN
    /\ g_exit = EXIT_SOFT
    /\ pc = "loop"

-----------------------------------------------------------------------------
(* C22: the phase is 0, 1 or 2 and is 0 whenever the sequencer is Idle; a  *)
(* START taken while Idle, every Slow expiry handled while Running and     *)
(* seq_hard_stop leave it 0; it changes otherwise only in the Fast handler *)
(* while Running, from 0 to 1 and from 1 to 2.                             *)
C22_Phase ==
    /\ [](g_t1_cnt \in 0..2)
    /\ [](g_state = ST_IDLE => g_t1_cnt = 0)
    /\ [][ /\ ev'.op \in {"start", "TIM2_stop", "TIM2_continue",
                           "hard_stop"} => g_t1_cnt' = 0
           /\ g_t1_cnt' # g_t1_cnt =>
                 \/ ev'.op \in {"start", "TIM2_stop", "TIM2_continue",
                                "hard_stop"}
                 \/ /\ ev'.op \in {"TIM1_pulse1", "TIM1_pulse2"}
                    /\ g_state = ST_RUN
                    /\ g_t1_cnt' = g_t1_cnt + 1
        ]_vars

\* the phase has gone back from 2 to 0 at a Slow expiry that continues
C22_Witness ==
    /\ ev.op = "TIM2_continue"
    /\ ev.ph = 2
    /\ g_t1_cnt = 0
    /\ g_state = ST_RUN

-----------------------------------------------------------------------------
(* C23: while the sequencer is Running, the Fast timer goes from not armed *)
(* to armed only in the continue branch of the Slow handler.               *)
C23_OnlySlowRearms ==
    [][ (g_state = ST_RUN /\ ~Armed(htim[1]) /\ Armed(htim'[1])) =>
            ev'.op = "TIM2_continue"
      ]_vars

\* the Slow handler has re-armed the Fast timer after the Fast handler
\* had completed its sequence
C23_Witness ==
    /\ ev.op = "TIM2_continue"
    /\ ev.ph = 2
    /\ pulse_count > 0
    /\ Armed(htim[1])
    /\ htim[1].cnt = 0

-----------------------------------------------------------------------------
(* C24: whenever the sequencer is Idle neither timer is armed.             *)
C24_IdleTimersOff ==
    (g_state = ST_IDLE) => (~Armed(htim[1]) /\ ~Armed(htim[2]))

-----------------------------------------------------------------------------
(* C25: seq_start has armed both timers when it comes to set the state     *)
(* Running, the sequencer still being Idle; a timer expiry handled after   *)
(* the first timer was started and before the state is Running is ignored: *)
(* phase 0, bridge, cycle counter, exit request and state stay as they     *)
(* are and an armed timer stays armed; the step that completes seq_start   *)
(* leaves the sequencer Running with phase 0, no exit request and both     *)
(* timers armed; from then on the Fast expiries handled while Running      *)
(* command the positive pulse at phase 0, the negative pulse at phase 1    *)
(* and all-off with the Fast timer stopped at phase 2.                     *)
C25_ExpiryDuringStart ==
    /\ [](pc = "start_run" =>
             /\ g_state = ST_IDLE
             /\ Armed(htim[1]) /\ Armed(htim[2]))
    /\ [][ /\ (pc \in {"start_it2", "start_run"} /\
               ev'.op \in (Tim1Ops \cup Tim2Ops)) =>
                  /\ g_state' = ST_IDLE
                  /\ g_t1_cnt = 0 /\ g_t1_cnt' = 0
                  /\ gpio' = gpio
                  /\ pulse_count' = pulse_count
                  /\ g_exit' = g_exit
                  /\ \A i \in 1..2 : Armed(htim[i]) => Armed(htim'[i])
           /\ (pc = "start_run" /\ pc' = "loop") =>
                  /\ g_state' = ST_RUN
                  /\ g_t1_cnt' = 0
                  /\ g_exit' = EXIT_NONE
                  /\ gpio' = gpio
                  /\ Armed(htim'[1]) /\ Armed(htim'[2])
           /\ (ev'.op \in Tim1Ops /\ g_state = ST_RUN) =>
                  CASE g_t1_cnt = 0 ->
                         PositivePulse(gpio') /\ g_t1_cnt' = 1
                    [] g_t1_cnt = 1 ->
                         NegativePulse(gpio') /\ g_t1_cnt' = 2
                    [] OTHER ->
                         AllOff(gpio') /\ g_t1_cnt' = 2 /\ Stopped(htim'[1])
        ]_vars

\* a Fast expiry has been handled and ignored inside seq_start, after both
\* timers were started and before the state is Running
C25_Witness ==
    /\ ev.op = "TIM1_ignored"
    /\ pc = "start_run"
    /\ g_state = ST_IDLE
    /\ g_t1_cnt = 0
    /\ Armed(htim[1]) /\ Armed(htim[2])

=============================================================================
